---- MODULE Spec2Model ----
(***************************************************************************)
(* Free-GPT4-WEB-API chat bots (src/src/telegram_bot.py,                   *)
(* src/src/slack_bot.py): the message segmenter _split_message, the        *)
(* response orchestrator _generate_answer with its user-store lookup and   *)
(* create, and the per-message handlers with the Telegram typing task.     *)
(*                                                                         *)
(* A Python str is modelled as the sequence of its characters; NL is the   *)
(* newline character.  Python indices are 0-based, TLA+ sequences 1-based: *)
(* s[:k] is SubSeq(s, 1, k) and s[k:] is SubSeq(s, k + 1, Len(s)).         *)
(***************************************************************************)
EXTENDS Integers, Sequences, FiniteSets, TLC

\* ------------------------------------------------------------- bounds
\* Longest text handed to the segmenter in SplitSpec.
MaxTextLen == 6
\* Largest max_len handed to the segmenter in SplitSpec (the smallest is 1).
MaxLimit == 3
\* Inbound messages handled, one handler activation each.
NMsgs == 2
\* Typing indicators one typing task gets through to the platform.
MaxTyping == 1

NL == "\n"
\* The characters the segmenter's input texts are drawn from.
Alphabet == {"a", " ", NL}

Max(S) == CHOOSE x \in S : \A y \in S : y <= x

TextsUpTo(n) == UNION {[1..k -> Alphabet] : k \in 0..n}

\* ------------------------------------------------------------- state
VARIABLES
  \* _split_message, one call: its arguments, its locals, its position
  text, max_len, remaining, parts, spc,
  \* the user store: the usernames it holds a record for, and how many
  \* create calls succeeded for each username
  users, created,
  \* per inbound message: the update, and where its handler stands
  msg, hpc,
  \* per message, _generate_answer: what lookup and create did, the call to
  \* the AI backend, and how _generate_answer ended
  lookup, create, ai, ret,
  \* per message, the typing task: its state, a cancel() not yet delivered,
  \* and the typing indicators the platform received
  task, must_cancel, typing_sent,
  \* per message, the send loop: the chunk being sent (1-based) and every
  \* send attempt made so far
  idx, attempts,
  \* one launch call (start_telegram_bot or start_slack_bot): its arguments
  \* and the configuration and context it reads, where the call stands, what
  \* it returned, whether it asked for the running loop, the adapter objects
  \* constructed, the task put on the caller's loop, the background thread,
  \* and the lines logged
  launch, lpc, lret, probed, apps, ltask, thread, log

splitVars == <<text, max_len, remaining, parts, spc>>
storeVars == <<users, created>>
orchVars == <<lookup, create, ai, ret>>
typingVars == <<task, must_cancel, typing_sent>>
sendVars == <<idx, attempts>>
botVars == <<users, created, msg, hpc, lookup, create, ai, ret,
             task, must_cancel, typing_sent, idx, attempts>>
launchVars == <<launch, lpc, lret, probed, apps, ltask, thread, log>>
vars == <<text, max_len, remaining, parts, spc,
          users, created, msg, hpc, lookup, create, ai, ret,
          task, must_cancel, typing_sent, idx, attempts,
          launch, lpc, lret, probed, apps, ltask, thread, log>>

\* ----------------------------------------------------- _split_message
\* str.rfind("\n"): the 0-based index of the last newline of w, or -1.
rfind_nl(w) ==
  LET S == {i \in 1..Len(w) : w[i] = NL}
  IN IF S = {} THEN -1 ELSE Max(S) - 1

\* str.rfind("\n\n"): the 0-based index of the last double newline of w, or -1.
rfind_nlnl(w) ==
  LET S == {i \in 1..(Len(w) - 1) : w[i] = NL /\ w[i + 1] = NL}
  IN IF S = {} THEN -1 ELSE Max(S) - 1

\* str.lstrip() without its argument: every leading whitespace character goes.
lstrip_any(s) ==
  LET k == CHOOSE i \in 1..(Len(s) + 1) :
             /\ (i = Len(s) + 1 \/ s[i] \notin {NL, " "})
             /\ \A j \in 1..(i - 1) : s[j] \in {NL, " "}
  IN SubSeq(s, k, Len(s))

\* str.lstrip("\n"): s without its leading newlines.
lstrip_nl(s) ==
  LET k == CHOOSE i \in 1..(Len(s) + 1) :
             /\ (i = Len(s) + 1 \/ s[i] # NL)
             /\ \A j \in 1..(i - 1) : s[j] = NL
  IN SubSeq(s, k, Len(s))

\* The split point searched in the whole remainder instead of the window.
SplitIdx_nowindow(rem, maxlen) ==
  LET i2 == rfind_nlnl(rem)
      i1 == rfind_nl(rem)
  IN IF i2 # -1 THEN i2 ELSE IF i1 # -1 THEN i1 ELSE maxlen

\* Lines 45-50: the split point of an over-length remainder.
SplitIdx(rem, maxlen) ==
  LET window == SubSeq(rem, 1, maxlen)
      i2 == rfind_nlnl(window)
      i1 == rfind_nl(window)
  IN IF i2 # -1 THEN i2 ELSE IF i1 # -1 THEN i1 ELSE maxlen

\* Line 51: the chunk cut off at the split point.
CutPart(rem, maxlen) == SubSeq(rem, 1, SplitIdx(rem, maxlen))

\* The remainder taken from one past the split point, as if a separator
\* always stood there.
CutRest_skip(rem, maxlen) ==
  lstrip_nl(SubSeq(rem, SplitIdx(rem, maxlen) + 2, Len(rem)))

\* Line 52: what is left after the cut, leading newlines stripped.
CutRest(rem, maxlen) ==
  lstrip_nl(SubSeq(rem, SplitIdx(rem, maxlen) + 1, Len(rem)))

\* Lines 35-39: the call; a text within the limit is returned as one chunk.
SplitCall ==
  /\ spc = "start"
  /\ IF Len(text) <= max_len
       THEN /\ parts' = <<text>>
            /\ remaining' = <<>>
            /\ spc' = "done"
       ELSE /\ parts' = <<>>
            /\ remaining' = text
            /\ spc' = "loop"
  /\ UNCHANGED <<text, max_len>>
  /\ UNCHANGED <<botVars, launchVars>>

\* Lines 40-52: one test of the while condition and one pass of its body.
SplitLoop ==
  /\ spc = "loop"
  /\ IF remaining = <<>>
       THEN /\ spc' = "done"
            /\ UNCHANGED <<parts, remaining>>
       ELSE IF Len(remaining) <= max_len
         THEN /\ parts' = Append(parts, remaining)
              /\ spc' = "done"
              /\ UNCHANGED remaining
         ELSE /\ parts' = Append(parts, CutPart(remaining, max_len))
              /\ remaining' = CutRest(remaining, max_len)
              /\ spc' = "loop"
  /\ UNCHANGED <<text, max_len>>
  /\ UNCHANGED <<botVars, launchVars>>

\* The loop of lines 40-52 run to its end, as one value.
RECURSIVE split_loop(_, _, _)
split_loop(rem, ps, maxlen) ==
  IF rem = <<>> THEN ps
  ELSE IF Len(rem) <= maxlen THEN Append(ps, rem)
  ELSE split_loop(CutRest(rem, maxlen), Append(ps, CutPart(rem, maxlen)), maxlen)

\* Lines 34-53: the list _split_message returns.
_split_message(t, maxlen) ==
  IF Len(t) <= maxlen THEN <<t>> ELSE split_loop(t, <<>>, maxlen)

\* ------------------------------------------------------- the two bots
Msgs == 1..NMsgs
\* Platform-native user ids of the senders.
Ids == {"1", "2"}

TELEGRAM_USERNAME_PREFIX == "tg_"
SLACK_USERNAME_PREFIX == "slack_"
ADMIN == "admin"
APOLOGY == "Sorry, I couldn't get a response right now. Please try again."
DEFAULT_MAX_LEN == 4000

\* Replies the AI backend completes with: the empty string, a short one, and
\* LONG, which names a reply of DEFAULT_MAX_LEN + 1 characters.
LONG == "a * (DEFAULT_MAX_LEN + 1)"
AIReplies == {"", "hi", LONG}

\* The characters of each string a reply can be (TLC cannot index a string).
ReplyText(r) ==
  CASE r = "" -> <<>>
    [] r = "hi" -> <<"h", "i">>
    [] r = LONG -> [i \in 1..(DEFAULT_MAX_LEN + 1) |-> "a"]
    [] r = APOLOGY ->
    <<"S", "o", "r", "r", "y", ",", " ", "I", " ", "c", "o", "u", "l",
     "d", "n", "'", "t", " ", "g", "e", "t", " ", "a", " ", "r", "e",
     "s", "p", "o", "n", "s", "e", " ", "r", "i", "g", "h", "t", " ",
     "n", "o", "w", ".", " ", "P", "l", "e", "a", "s", "e", " ", "t",
     "r", "y", " ", "a", "g", "a", "i", "n", ".">>

\* Line 110: chunks = _split_message(reply), max_len left at its default.
Chunks == [r \in AIReplies \cup {APOLOGY} |->
             _split_message(ReplyText(r), DEFAULT_MAX_LEN)]

\* Line 100 and slack line 28: the virtual username of a sender.
VirtualName(platform, uid) ==
  IF platform = "telegram" THEN TELEGRAM_USERNAME_PREFIX \o uid
  ELSE SLACK_USERNAME_PREFIX \o uid

Usernames == {VirtualName(p, u) : p \in {"telegram", "slack"}, u \in Ids}

\* The updates a Telegram handler is called with.  kind "none": the update
\* has no message or no effective_user; "blank": its text is empty or
\* whitespace only.  chat: update.effective_chat is not None.
TgUpdates ==
  {[platform |-> "telegram", uid |-> u, kind |-> k, chat |-> c] :
     u \in Ids, k \in {"text"}, c \in BOOLEAN}
  \cup {[platform |-> "telegram", uid |-> "1", kind |-> k, chat |-> TRUE] :
     k \in {"none", "blank"}}

\* The messages a Slack handler is called with.
SlackMessages ==
  {[platform |-> "slack", uid |-> u, kind |-> "text", chat |-> TRUE] : u \in Ids}
  \cup {[platform |-> "slack", uid |-> "1", kind |-> "blank", chat |-> TRUE]}

NoMsg == [platform |-> "none", uid |-> "", kind |-> "none", chat |-> FALSE]
NoCall == [state |-> "none", username |-> "", value |-> ""]
NoRet == [kind |-> "none", value |-> ""]
Return(v) == [kind |-> "return", value |-> v]
Raise == [kind |-> "raise", value |-> ""]

\* ---- the user store (db_manager)
\* get_user_by_username: the record if the store holds one, nothing if it
\* does not, or a store failure.
LookupResults(u) == {IF u \in users THEN "found" ELSE "absent", "error"}

\* create_user: a new record, or a failure; a username already taken is
\* refused.
CreateResults(u) == IF u \in users THEN {"error"} ELSE {"ok", "error"}

\* ---- _generate_answer
\* Line 60 with no test of the lookup's result: create is always tried.
CreateAttempted_always(lr) == TRUE

\* Line 60, `if not user`: create is tried when the lookup found nothing.
CreateAttempted(lr) == lr = "absent"

\* Lines 64-66 without the fallback: a failed create keeps the username.
UsernameAfterResolve_nofallback(virt, lr, cr) == virt

\* Lines 59-66: the username the AI backend is called with.
UsernameAfterResolve(virt, lr, cr) ==
  IF lr = "absent" /\ cr = "error" THEN ADMIN ELSE virt

\* Lines 68-76 without the except clause of line 77: a failure propagates.
AnswerOnAIResult_noexcept(out) ==
  IF out.kind = "ok" THEN Return(out.value) ELSE Raise

\* Lines 68-79: the reply as it came, or the apology when the call failed.
AnswerOnAIResult(out) ==
  IF out.kind = "ok" THEN Return(out.value) ELSE Return(APOLOGY)

\* Lines 59, 77-79: a failing lookup is caught by the outer except clause.
AnswerOnLookupError == Return(APOLOGY)

\* What the AI backend call can end with.
AIOutcomes ==
  {[kind |-> "ok", value |-> r] : r \in AIReplies}
  \cup {[kind |-> "fail", value |-> ""]}

\* ---- handle_message, Telegram
\* Line 103 straight on to the send loop: the task is neither cancelled nor
\* awaited.
CancelTyping_skip(m) ==
  /\ must_cancel' = must_cancel
  /\ hpc' = [hpc EXCEPT ![m] = "send_md"]
  /\ idx' = [idx EXCEPT ![m] = 1]

\* Lines 105-107: typing_task.cancel() and the start of `await typing_task`.
\* The task is never done here (its loop has no exit but cancellation), so
\* cancel() leaves a cancellation to deliver and the await suspends.
CancelTyping(m) ==
  /\ must_cancel' = [must_cancel EXCEPT ![m] = TRUE]
  /\ hpc' = [hpc EXCEPT ![m] = "await_typing"]
  /\ idx' = idx

\* Slack line 90: the start of `await say(reply)`.
StartSay(m) ==
  /\ hpc' = [hpc EXCEPT ![m] = "say"]
  /\ UNCHANGED <<must_cancel, idx>>

\* What follows the return of _generate_answer, up to the next suspension.
AfterAnswer(m, platform) ==
  IF platform = "telegram" THEN CancelTyping(m) ELSE StartSay(m)

\* Lines 56-68 (slack 25-40), entered from the handler: lookup, create, and
\* either the AI backend call (the coroutine suspends) or, when the lookup
\* raised, the return of the apology without any suspension.  All of it is
\* synchronous code, so no other coroutine of the loop runs in between.
GenerateAnswerStart(m, upd) ==
  LET virt == VirtualName(upd.platform, upd.uid) IN
  \E lr \in LookupResults(virt) :
  \E cr \in (IF lr # "error" /\ CreateAttempted(lr)
               THEN CreateResults(virt) ELSE {"none"}) :
    /\ lookup' = [lookup EXCEPT ![m] = lr]
    /\ create' = [create EXCEPT ![m] = cr]
    /\ users' = IF cr = "ok" THEN users \cup {virt} ELSE users
    /\ created' = IF cr = "ok"
                    THEN [created EXCEPT ![virt] = @ + 1] ELSE created
    /\ IF lr = "error"
         THEN /\ ret' = [ret EXCEPT ![m] = AnswerOnLookupError]
              /\ ai' = ai
              /\ AfterAnswer(m, upd.platform)
         ELSE /\ ai' = [ai EXCEPT ![m] =
                          [state |-> "pending",
                           username |-> UsernameAfterResolve(virt, lr, cr),
                           value |-> ""]]
              /\ hpc' = [hpc EXCEPT ![m] = "await_ai"]
              /\ UNCHANGED <<ret, must_cancel, idx>>

\* Lines 94-98 without the test of line 97: blank text is handled too.
TgDiscards_noblank(upd) == upd.kind = "none"

\* Lines 94-98: the updates the handler returns on at once: no message or
\* no effective_user, or a text that is empty after strip().
TgDiscards(upd) == upd.kind \in {"none", "blank"}

\* Slack lines 83-87: the messages the handler returns on at once.
SlackDiscards(upd) == upd.kind = "blank"

\* Lines 93-103: the handler from its call to its first suspension.
TgHandleMessage(m) ==
  /\ hpc[m] = "idle"
  /\ \E upd \in TgUpdates :
       /\ msg' = [msg EXCEPT ![m] = upd]
       /\ IF TgDiscards(upd)
            THEN /\ hpc' = [hpc EXCEPT ![m] = "done"]
                 /\ UNCHANGED <<storeVars, orchVars, typingVars, sendVars>>
            ELSE /\ task' = [task EXCEPT ![m] = "pending"]
                 /\ GenerateAnswerStart(m, upd)
                 /\ UNCHANGED <<typing_sent, attempts>>
  /\ UNCHANGED <<launchVars, splitVars>>

\* Slack lines 82-89: the handler from its call to its first suspension.
SlackHandleMessage(m) ==
  /\ hpc[m] = "idle"
  /\ \E upd \in SlackMessages :
       /\ msg' = [msg EXCEPT ![m] = upd]
       /\ IF SlackDiscards(upd)
            THEN /\ hpc' = [hpc EXCEPT ![m] = "done"]
                 /\ UNCHANGED <<storeVars, orchVars, typingVars, sendVars>>
            ELSE /\ GenerateAnswerStart(m, upd)
                 /\ UNCHANGED <<task, typing_sent, attempts>>
  /\ UNCHANGED <<launchVars, splitVars>>

\* Lines 68-79 (slack 40-51) and what the handler does next: the AI backend
\* call ends, _generate_answer returns, the handler runs to its next
\* suspension.  The typing task's first step was queued on the loop before
\* the handler suspended, so it has run by the time the backend answers.
AIComplete(m) ==
  /\ hpc[m] = "await_ai"
  /\ task[m] # "pending"
  /\ \E out \in AIOutcomes :
       /\ ai' = [ai EXCEPT ![m].state = out.kind, ![m].value = out.value]
       /\ ret' = [ret EXCEPT ![m] = AnswerOnAIResult(out)]
  /\ AfterAnswer(m, msg[m].platform)
  /\ UNCHANGED <<launchVars, splitVars, storeVars, msg, lookup, create,
                 task, typing_sent, attempts>>

\* ---- _typing_loop, the task of line 102
\* Lines 120-124, the task's first step with no cancellation requested: the
\* coroutine enters its try blocks and suspends in send_action, or in the
\* sleep of line 127 when there is no chat.
TypingStart(m) ==
  /\ task[m] = "pending"
  /\ ~must_cancel[m]
  /\ task' = [task EXCEPT ![m] = IF msg[m].chat THEN "in_send" ELSE "in_sleep"]
  /\ UNCHANGED <<launchVars, splitVars, storeVars, msg, hpc, orchVars,
                 must_cancel, typing_sent, sendVars>>

\* Lines 124-127: send_action ends, with the indicator delivered or with an
\* error that line 125 swallows; the task goes to sleep.
TypingSendDone(m) ==
  /\ task[m] = "in_send"
  /\ ~must_cancel[m]
  /\ \/ /\ typing_sent[m] < MaxTyping
        /\ typing_sent' = [typing_sent EXCEPT ![m] = @ + 1]
     \/ typing_sent' = typing_sent
  /\ task' = [task EXCEPT ![m] = "in_sleep"]
  /\ UNCHANGED <<launchVars, splitVars, storeVars, msg, hpc, orchVars, must_cancel, sendVars>>

\* Lines 127, 121-124: the sleep ends and the loop sends again.
TypingSleepDone(m) ==
  /\ task[m] = "in_sleep"
  /\ ~must_cancel[m]
  /\ msg[m].chat
  /\ task' = [task EXCEPT ![m] = "in_send"]
  /\ UNCHANGED <<launchVars, splitVars, storeVars, msg, hpc, orchVars,
                 must_cancel, typing_sent, sendVars>>

\* Lines 128-130 and asyncio's Task: the cancellation is delivered at the
\* task's next step.  Suspended at line 124 or 127, the coroutine gets
\* CancelledError inside its outer try (line 125's `except Exception` does
\* not match it), line 128 catches it and the task finishes.  Not yet
\* started, the coroutine gets it before its first statement, outside any
\* try: the error leaves the coroutine and the task ends cancelled.
TypingCancelled(m) ==
  /\ must_cancel[m]
  /\ task[m] \in {"pending", "in_send", "in_sleep"}
  /\ task' = [task EXCEPT ![m] =
                IF task[m] = "pending" THEN "cancelled" ELSE "finished"]
  /\ must_cancel' = [must_cancel EXCEPT ![m] = FALSE]
  /\ UNCHANGED <<launchVars, splitVars, storeVars, msg, hpc, orchVars, typing_sent, sendVars>>

\* ---- handle_message, Telegram, after the typing task
\* Lines 106-113: `await typing_task` ends.  A finished task gives None and
\* the handler splits the reply and starts the first formatted send.  A
\* cancelled task raises CancelledError, which is no Exception (line 108
\* does not match it): it leaves the handler.
AwaitTypingDone(m) ==
  /\ hpc[m] = "await_typing"
  /\ task[m] \in {"finished", "cancelled"}
  /\ IF task[m] = "finished"
       THEN /\ hpc' = [hpc EXCEPT ![m] = "send_md"]
            /\ idx' = [idx EXCEPT ![m] = 1]
       ELSE /\ hpc' = [hpc EXCEPT ![m] = "raised_cancelled"]
            /\ idx' = idx
  /\ UNCHANGED <<launchVars, splitVars, storeVars, msg, orchVars, typingVars, attempts>>

\* Lines 111-113, after chunk idx went through: the next chunk, or the end.
NextChunk(m) ==
  IF idx[m] < Len(Chunks[ret[m].value])
    THEN /\ idx' = [idx EXCEPT ![m] = @ + 1]
         /\ hpc' = [hpc EXCEPT ![m] = "send_md"]
    ELSE /\ idx' = idx
         /\ hpc' = [hpc EXCEPT ![m] = "done"]

\* Line 114 catching every Exception: any failed formatted send is retried.
MarkdownOutcome_retryany(res) == IF res = "ok" THEN "next" ELSE "plain"

\* Lines 112-116: what follows a formatted send: the next chunk, the plain
\* retry of line 116 (BadRequest only), or the error leaving the handler.
MarkdownOutcome(res) ==
  CASE res = "ok" -> "next"
    [] res = "bad_request" -> "plain"
    [] res = "error" -> "raise"

\* Line 116 with its error swallowed: the loop goes on to the next chunk.
PlainOutcome_swallow(res) == "next"

\* Line 116: what follows the plain retry: the next chunk, or the error
\* leaving the handler (nothing catches it).
PlainOutcome(res) == IF res = "ok" THEN "next" ELSE "raise"

\* Lines 113-116: reply_text(chunk, parse_mode=MARKDOWN) ends: accepted,
\* rejected with BadRequest (the plain send of line 116 starts), or failed
\* with another error, which leaves the handler.
SendMarkdownDone(m) ==
  /\ hpc[m] = "send_md"
  /\ \E res \in {"ok", "bad_request", "error"} :
       /\ attempts' = [attempts EXCEPT ![m] =
                         Append(@, [chunk |-> idx[m], mode |-> "md", res |-> res])]
       /\ CASE MarkdownOutcome(res) = "next" -> NextChunk(m)
            [] MarkdownOutcome(res) = "plain" ->
                 /\ hpc' = [hpc EXCEPT ![m] = "send_plain"]
                 /\ idx' = idx
            [] MarkdownOutcome(res) = "raise" ->
                 /\ hpc' = [hpc EXCEPT ![m] = "raised_send"]
                 /\ idx' = idx
  /\ UNCHANGED <<launchVars, splitVars, storeVars, msg, orchVars, typingVars>>

\* Line 116: reply_text(chunk) ends: accepted, or failed with any error
\* (BadRequest included), which leaves the handler.
SendPlainDone(m) ==
  /\ hpc[m] = "send_plain"
  /\ \E res \in {"ok", "error"} :
       /\ attempts' = [attempts EXCEPT ![m] =
                         Append(@, [chunk |-> idx[m], mode |-> "plain", res |-> res])]
       /\ IF PlainOutcome(res) = "next"
            THEN NextChunk(m)
            ELSE /\ hpc' = [hpc EXCEPT ![m] = "raised_send"]
                 /\ idx' = idx
  /\ UNCHANGED <<launchVars, splitVars, storeVars, msg, orchVars, typingVars>>

\* Slack line 90: say(reply) ends; the whole reply is one send (chunk 0).
SlackSayDone(m) ==
  /\ hpc[m] = "say"
  /\ \E res \in {"ok", "error"} :
       /\ attempts' = [attempts EXCEPT ![m] =
                         Append(@, [chunk |-> 0, mode |-> "say", res |-> res])]
       /\ hpc' = [hpc EXCEPT ![m] = IF res = "ok" THEN "done" ELSE "raised_send"]
  /\ UNCHANGED <<launchVars, splitVars, storeVars, msg, orchVars, typingVars, idx>>

\* ------------------------------------------------------- the launchers
\* A token that is set, and a webhook URL that is set; "" stands for a value
\* that is None or empty (both are false in Python).
TOKEN == "token"
URL == "https://host/hook"

\* Python's `a or b` on two optional strings.
Or(a, b) == IF a # "" THEN a ELSE b

\* What a launch call can be given and can find: its arguments, the
\* configured tokens and webhook settings, and whether an event loop is
\* running in the calling thread.  build is filled in by the call.
TgLaunches ==
  {[adapter |-> "telegram", bot_token_override |-> o, bot_token |-> c,
    app_token_override |-> "", app_token |-> "",
    blocking |-> b, running |-> r, use_webhook |-> w, webhook_url |-> u,
    build |-> "none"] :
     o \in {"", TOKEN}, c \in {"", TOKEN}, b \in BOOLEAN, r \in BOOLEAN,
     w \in BOOLEAN, u \in {"", URL}}

SlackLaunches ==
  {[adapter |-> "slack", bot_token_override |-> o, bot_token |-> c,
    app_token_override |-> ao, app_token |-> ac,
    blocking |-> b, running |-> r, use_webhook |-> FALSE, webhook_url |-> "",
    build |-> "none"] :
     o \in {"", TOKEN}, c \in {"", TOKEN}, ao \in {"", TOKEN},
     ac \in {"", TOKEN}, b \in BOOLEAN, r \in BOOLEAN}

NoLaunch ==
  [adapter |-> "none", bot_token_override |-> "", bot_token |-> "",
   app_token_override |-> "", app_token |-> "",
   blocking |-> FALSE, running |-> FALSE, use_webhook |-> FALSE,
   webhook_url |-> "", build |-> "none"]

NoTask == [kind |-> "none", state |-> "none"]

\* Line 148 and slack lines 64-65: the tokens the call works with.
BotToken(c) == Or(c.bot_token_override, c.bot_token)
AppToken(c) == Or(c.app_token_override, c.app_token)

\* Slack line 67 with `and` for `or`: disabled only when both are missing.
TokensMissing_and(c) ==
  IF c.adapter = "telegram" THEN BotToken(c) = ""
  ELSE BotToken(c) = "" /\ AppToken(c) = ""

\* Line 149 (`if not token`) and slack line 67 (`if not bot_token or not
\* app_token`).
TokensMissing(c) ==
  IF c.adapter = "telegram" THEN BotToken(c) = ""
  ELSE BotToken(c) = "" \/ AppToken(c) = ""

\* Line 164: config.telegram.use_webhook and config.telegram.webhook_url.
WebhookConfigured(c) ==
  c.adapter = "telegram" /\ c.use_webhook /\ c.webhook_url # ""

\* How the construction of the adapter and the registration of its handlers
\* end (lines 158-161, slack 100-101): done, a RuntimeError, or any other
\* Exception (an invalid token, or the SDK import that failed at line 19 and
\* left Application = object).
BuildOutcomes == {"ok", "runtime_error", "error"}

\* The lines written to the log.
LOG_DISABLED == "bot disabled"
LOG_IN_LOOP == "Starting Slack bot in current loop"
LOG_THREAD_STARTED == "started in background thread"
LOG_THREAD_FAILED == "bot thread failed"
LOG_INIT_FAILED == "Failed to initialize Slack bot"
LOG_POLLING == "Telegram bot polling started"
LOG_WEBHOOK == "Telegram bot webhook started"

\* Slack line 99: logged before the adapter is constructed.
AttachedLog(c) == IF c.adapter = "slack" THEN {LOG_IN_LOOP} ELSE {}

\* Lines 150-152, slack 68-69: the call returns None at once.
Disabled ==
  [pc |-> "returned", ret |-> "None", probed |-> FALSE, apps |-> 0,
   task |-> NoTask, thread |-> "none", log |-> {LOG_DISABLED}]

\* Lines 177-203, slack 109-140: the handler of RuntimeError starts the
\* daemon thread and returns None; r is the call's state when the
\* RuntimeError was raised.
Detached(r) ==
  [r EXCEPT !.pc = "returned", !.ret = "None", !.thread = "started",
            !.log = @ \cup {LOG_THREAD_STARTED}]

\* Lines 154-203, slack 92-148: the whole synchronous call for inputs c,
\* where b is the outcome of the construction in the caller's loop ("none"
\* when the call does not get there).
StartResult(c, b) ==
  LET probe == [pc |-> "running", ret |-> "none", probed |-> TRUE, apps |-> 0,
                task |-> NoTask, thread |-> "none", log |-> {}]
      inloop == [probe EXCEPT !.log = AttachedLog(c)]
      built == [inloop EXCEPT !.apps = 1]
      sched == [built EXCEPT !.task = [kind |-> "receive",
                                       state |-> "scheduled"]]
  IN
  IF TokensMissing(c) THEN Disabled
  \* get_running_loop() raises RuntimeError
  ELSE IF ~c.running THEN Detached(probe)
  ELSE IF b = "runtime_error" THEN Detached(inloop)
  ELSE IF b = "error" THEN
    \* slack lines 142-144 catch it; nothing in start_telegram_bot does
    IF c.adapter = "slack"
      THEN [inloop EXCEPT !.pc = "returned", !.ret = "None",
                          !.log = @ \cup {LOG_INIT_FAILED}]
      ELSE [inloop EXCEPT !.pc = "raised"]
  \* lines 164-170: return loop.create_task(run_webhook())
  ELSE IF WebhookConfigured(c) THEN
    [built EXCEPT !.pc = "returned", !.ret = "task",
                  !.task = [kind |-> "webhook", state |-> "scheduled"]]
  \* lines 175, slack 106: run_until_complete on the running loop raises
  \* RuntimeError("This event loop is already running"); the task stays
  \* scheduled
  ELSE IF c.blocking THEN Detached(sched)
  ELSE [sched EXCEPT !.pc = "returned", !.ret = "task"]

\* The inputs for which the call reaches the construction in the loop.
BuildReached(c) == ~TokensMissing(c) /\ c.running

\* One call of start_telegram_bot or start_slack_bot, from entry to return.
StartBot ==
  /\ lpc = "idle"
  /\ \E c \in TgLaunches \cup SlackLaunches :
     \E b \in (IF BuildReached(c) THEN BuildOutcomes ELSE {"none"}) :
       LET r == StartResult(c, b) IN
       /\ launch' = [c EXCEPT !.build = b]
       /\ lpc' = r.pc
       /\ lret' = r.ret
       /\ probed' = r.probed
       /\ apps' = r.apps
       /\ ltask' = r.task
       /\ thread' = r.thread
       /\ log' = r.log
  /\ UNCHANGED <<splitVars, botVars>>

\* The caller's loop runs the scheduled task: run_webhook (lines 165-169)
\* runs to its end, _run_polling (lines 133-141) and _setup_and_run (slack
\* 76-78) get to their endless wait; or one of their awaits raises and the
\* task ends with that exception.
TaskStart ==
  /\ ltask.state = "scheduled"
  /\ \E ok \in BOOLEAN :
       /\ ltask' = [ltask EXCEPT !.state =
                      IF ~ok THEN "failed"
                      ELSE IF ltask.kind = "webhook" THEN "done"
                      ELSE "running"]
       /\ log' = IF ok /\ launch.adapter = "telegram"
                   THEN log \cup {IF ltask.kind = "webhook" THEN LOG_WEBHOOK
                                  ELSE LOG_POLLING}
                   ELSE log
  /\ UNCHANGED <<launch, lpc, lret, probed, apps, thread>>
  /\ UNCHANGED <<splitVars, botVars>>

\* The receive-loop task is cancelled from outside (the host shuts down).
TaskCancel ==
  /\ ltask.state = "running"
  /\ ltask' = [ltask EXCEPT !.state = "cancelled"]
  /\ UNCHANGED <<launch, lpc, lret, probed, apps, thread, log>>
  /\ UNCHANGED <<splitVars, botVars>>

\* _thread_target, lines 182-188 (slack 120-123): the thread constructs its
\* own adapter; any Exception is caught and logged (lines 192-193).
ThreadBuild ==
  /\ thread = "started"
  /\ \E ok \in BOOLEAN :
       IF ok
         THEN /\ thread' = "built"
              /\ apps' = apps + 1
              /\ log' = log
         ELSE /\ thread' = "failed"
              /\ apps' = apps
              /\ log' = log \cup {LOG_THREAD_FAILED}
  /\ UNCHANGED <<launch, lpc, lret, probed, ltask>>
  /\ UNCHANGED <<splitVars, botVars>>

\* _thread_target, line 191 (slack 125-129): the thread's loop runs
\* _run_polling, whatever the webhook settings, or the socket-mode handler,
\* until it waits for events; or that raises and is logged.
ThreadRun ==
  /\ thread = "built"
  /\ \E ok \in BOOLEAN :
       IF ok
         THEN /\ thread' = "receiving"
              /\ log' = IF launch.adapter = "telegram"
                          THEN log \cup {LOG_POLLING} ELSE log
         ELSE /\ thread' = "failed"
              /\ log' = log \cup {LOG_THREAD_FAILED}
  /\ UNCHANGED <<launch, lpc, lret, probed, apps, ltask>>
  /\ UNCHANGED <<splitVars, botVars>>

\* No launch call made yet.
LaunchIdle ==
  /\ launch = NoLaunch
  /\ lpc = "idle"
  /\ lret = "none"
  /\ probed = FALSE
  /\ apps = 0
  /\ ltask = NoTask
  /\ thread = "none"
  /\ log = {}

\* No message received yet, an empty user store.
BotIdle ==
  /\ users = {}
  /\ created = [u \in Usernames |-> 0]
  /\ msg = [m \in Msgs |-> NoMsg]
  /\ hpc = [m \in Msgs |-> "idle"]
  /\ lookup = [m \in Msgs |-> "none"]
  /\ create = [m \in Msgs |-> "none"]
  /\ ai = [m \in Msgs |-> NoCall]
  /\ ret = [m \in Msgs |-> NoRet]
  /\ task = [m \in Msgs |-> "none"]
  /\ must_cancel = [m \in Msgs |-> FALSE]
  /\ typing_sent = [m \in Msgs |-> 0]
  /\ idx = [m \in Msgs |-> 0]
  /\ attempts = [m \in Msgs |-> <<>>]

\* The segmenter's own variables at rest while the bots run.
SplitIdle ==
  /\ text = <<>>
  /\ max_len = DEFAULT_MAX_LEN
  /\ remaining = <<>>
  /\ parts = <<>>
  /\ spc = "start"

Init == BotIdle /\ SplitIdle /\ LaunchIdle

Next ==
  \E m \in Msgs :
    \/ TgHandleMessage(m)
    \/ SlackHandleMessage(m)
    \/ AIComplete(m)
    \/ TypingStart(m)
    \/ TypingSendDone(m)
    \/ TypingSleepDone(m)
    \/ TypingCancelled(m)
    \/ AwaitTypingDone(m)
    \/ SendMarkdownDone(m)
    \/ SendPlainDone(m)
    \/ SlackSayDone(m)

Spec == Init /\ [][Next]_vars

SplitInit ==
  /\ text \in TextsUpTo(MaxTextLen)
  /\ max_len \in 1..MaxLimit
  /\ remaining = <<>>
  /\ parts = <<>>
  /\ spc = "start"
  /\ BotIdle
  /\ LaunchIdle

SplitNext == SplitCall \/ SplitLoop

\* The interpreter runs the call to its end: the loop is not abandoned.
SplitSpec == SplitInit /\ [][SplitNext]_vars /\ WF_vars(SplitNext)

LaunchNext == StartBot \/ TaskStart \/ TaskCancel \/ ThreadBuild \/ ThreadRun

\* One launch call and what it set going; the handlers are at rest.
LaunchSpec == Init /\ [][LaunchNext]_vars

\* ------------------------------------------------- orchestrator properties
IsText(m) == msg[m].kind = "text"
Virt(m) == VirtualName(msg[m].platform, msg[m].uid)
\* _generate_answer is over for m: the lookup raised or the backend call ended.
AnswerOver(m) == lookup[m] = "error" \/ ai[m].state \in {"ok", "fail"}

\* C1: _generate_answer (both variants) never raises to its caller: whatever
\* the user store and the AI backend do it returns a string, and whenever
\* the backend call fails that string is exactly the apology.
C1_AnswerNeverRaises ==
  \A m \in Msgs :
    /\ ret[m].kind # "raise"
    /\ AnswerOver(m) => /\ ret[m].kind = "return"
                        /\ ret[m].value \in AIReplies \cup {APOLOGY}
    /\ ai[m].state = "fail" => ret[m] = Return(APOLOGY)

\* The backend call failed in a Telegram and in a Slack handler.
C1_Witness ==
  \E m1, m2 \in Msgs :
    /\ msg[m1].platform = "telegram" /\ msg[m2].platform = "slack"
    /\ ai[m1].state = "fail" /\ ai[m2].state = "fail"
    /\ ret[m1] = Return(APOLOGY) /\ ret[m2] = Return(APOLOGY)

\* C2: when the lookup finds no record and create fails, the AI backend is
\* still called, with the username "admin", and its reply is what
\* _generate_answer returns: the failed create neither propagates nor turns
\* the reply into the apology.
C2_CreateFailureFallsBackToAdmin ==
  \A m \in Msgs :
    (lookup[m] = "absent" /\ create[m] = "error") =>
      /\ ai[m].state # "none"
      /\ ai[m].username = ADMIN
      /\ ret[m].kind # "raise"
      /\ ai[m].state = "ok" => ret[m] = Return(ai[m].value)

\* A failed create followed by a backend reply that is returned as it is.
C2_Witness ==
  \E m \in Msgs :
    /\ lookup[m] = "absent" /\ create[m] = "error"
    /\ ai[m] = [state |-> "ok", username |-> ADMIN, value |-> "hi"]
    /\ ret[m] = Return("hi")

\* C3: any user-store failure, a failing lookup included, falls back to the
\* admin identity: the AI backend is still called, with username "admin".
C3_AnyStoreFailureFallsBack ==
  \A m \in Msgs :
    (lookup[m] = "error" \/ create[m] = "error") =>
      /\ ai[m].state # "none"
      /\ ai[m].username = ADMIN

\* C4, as claimed: every identity gets one successful create, on its first
\* contact; each message either made that create or found the record by
\* lookup and attempted none, and the backend is called with the virtual
\* username.  Stated for the messages whose lookup gave an answer.
C4_CreateOnceOnFirstContact ==
  \A m \in Msgs :
    (IsText(m) /\ lookup[m] \in {"found", "absent"}) =>
      /\ created[Virt(m)] = 1
      /\ \/ create[m] = "ok"
         \/ lookup[m] = "found" /\ create[m] = "none"
      /\ ai[m].username = Virt(m)

\* C4, amended: at most one create ever succeeds for a virtual username; a
\* handler that starts when the store holds the record attempts no create,
\* and a backend call it makes carries the virtual username, never "admin".
C4_AtMostOneCreateThenReuse ==
  [][ /\ \A u \in Usernames : created'[u] <= 1
      /\ \A m \in Msgs :
           ( /\ hpc[m] = "idle" /\ hpc'[m] # "idle"
             /\ msg'[m].kind = "text"
             /\ VirtualName(msg'[m].platform, msg'[m].uid) \in users )
           => /\ create'[m] = "none"
              /\ ai'[m].state # "none" =>
                   ai'[m].username = VirtualName(msg'[m].platform, msg'[m].uid)
    ]_vars

\* Two messages of one identity: the first created the record, the second
\* found it and called the backend with the virtual username.
C4_Witness ==
  \E m1, m2 \in Msgs :
    /\ m1 # m2 /\ IsText(m1) /\ IsText(m2) /\ Virt(m1) = Virt(m2)
    /\ create[m1] = "ok"
    /\ lookup[m2] = "found" /\ create[m2] = "none"
    /\ ai[m2].username = Virt(m2)
    /\ created[Virt(m1)] = 1

\* C5: the string _generate_answer returns is never empty, whatever the AI
\* backend call ends with.
C5_AnswerNonEmpty ==
  \A m \in Msgs : ret[m].kind = "return" => ReplyText(ret[m].value) # <<>>

\* --------------------------------------------------- typing task properties
\* The Telegram handler of m has started sending chunks.
Sending(m) == hpc[m] \in {"send_md", "send_plain"} \/ attempts[m] # <<>>
IsTg(m) == msg[m].platform = "telegram"

\* C9: cancelling the typing task never surfaces an error in the handler:
\* `await typing_task` does not raise, whenever the cancellation reaches the
\* task, so the handler goes on to send the reply.
C9_CancelNeverSurfaces ==
  \A m \in Msgs : hpc[m] # "raised_cancelled"

\* C10: the typing task exists before the orchestrator is called, and it is
\* over before the first chunk is sent: once a chunk send has started, the
\* platform receives no further typing indicator for that message.
C10_TypingStopsBeforeSend ==
  /\ [](\A m \in Msgs :
          /\ (IsTg(m) /\ lookup[m] # "none") => task[m] # "none"
          /\ (IsTg(m) /\ Sending(m)) => task[m] \in {"finished", "cancelled"})
  /\ [][\A m \in Msgs :
          (IsTg(m) /\ Sending(m)) => typing_sent'[m] = typing_sent[m]]_vars

\* A typing indicator went out while the backend worked and chunks were
\* sent afterwards, once after a backend reply and once after a failure.
C10_Witness ==
  \E m1, m2 \in Msgs :
    /\ IsTg(m1) /\ IsTg(m2)
    /\ ai[m1].state = "ok" /\ ai[m2].state = "fail"
    /\ typing_sent[m1] >= 1 /\ typing_sent[m2] >= 1
    /\ attempts[m1] # <<>> /\ attempts[m2] # <<>>

\* ------------------------------------------------ launcher properties
Launched == lpc # "idle"

\* The required token is configured nowhere: neither the argument nor the
\* configuration holds the bot token, or (Slack) the app token.
NoToken ==
  \/ launch.bot_token_override = "" /\ launch.bot_token = ""
  \/ /\ launch.adapter = "slack"
     /\ launch.app_token_override = "" /\ launch.app_token = ""

\* The call went through with its tokens and a construction that succeeded
\* wherever it was made in the caller's loop.
CleanLaunch == Launched /\ ~NoToken /\ launch.build \in {"none", "ok"}

\* C11: a launch with its tokens configured starts the adapter in exactly
\* one mode: a task on the caller's loop iff a loop is running, a background
\* thread otherwise, and never both, whatever the blocking flag.
C11_ExactlyOneMode ==
  CleanLaunch =>
    /\ ~(ltask # NoTask /\ thread # "none")
    /\ launch.running <=> (ltask # NoTask)
    /\ (~launch.running) <=> (thread # "none")

\* C12: with a running loop and blocking requested, the call has returned
\* only if the receive-loop task it scheduled is over, and it returned the
\* handle to that task.
C12_BlockingWaitsForTask ==
  (CleanLaunch /\ launch.running /\ launch.blocking
     /\ ~WebhookConfigured(launch) /\ lpc = "returned") =>
    /\ lret = "task"
    /\ ltask.state \in {"done", "failed", "cancelled"}

\* C13: a failing construction of the adapter never leaves the launch call
\* as an exception, with or without a running loop and for both adapters, and
\* it is logged.
C13_StartupFailureContained ==
  /\ lpc # "raised"
  /\ (lpc = "returned" /\ launch.build = "error") => LOG_INIT_FAILED \in log
  /\ thread = "failed" => LOG_THREAD_FAILED \in log

\* C14: with a required token absent the call returns None at once: it does
\* not ask for the running loop, constructs no adapter, schedules no task
\* and starts no thread, whatever the blocking flag and the caller's loop.
C14_NoTokenNoStart ==
  (Launched /\ NoToken) =>
    /\ lpc = "returned" /\ lret = "None"
    /\ ~probed
    /\ apps = 0 /\ ltask = NoTask /\ thread = "none"
    /\ log = {LOG_DISABLED}

\* A blocking Slack launch from a running loop with the bot token set and
\* the app token missing has returned.
C14_Witness ==
  /\ lpc = "returned" /\ launch.adapter = "slack"
  /\ launch.bot_token = TOKEN
  /\ launch.app_token_override = "" /\ launch.app_token = ""
  /\ launch.running /\ launch.blocking

\* C15: while webhook use is enabled and a webhook URL is set, the Telegram
\* launcher never starts the polling loop, neither as a task on the caller's
\* loop nor in the background thread.
C15_WebhookNeverPolls ==
  (Launched /\ launch.use_webhook /\ launch.webhook_url # "") =>
    /\ ltask.kind # "receive"
    /\ thread \notin {"built", "receiving"}

\* ------------------------------------------------ handler properties
IsBlank(m) == msg[m].kind = "blank"

\* C16: a message whose text is empty or whitespace-only has no effect, in
\* the Telegram and in the Slack handler: no typing task, no user-store
\* lookup or create, no AI backend call, nothing sent; the user store is
\* left as it was.
C16_BlankDoesNothing ==
  /\ [](\A m \in Msgs :
          IsBlank(m) =>
            /\ hpc[m] = "done"
            /\ task[m] = "none" /\ typing_sent[m] = 0
            /\ lookup[m] = "none" /\ create[m] = "none"
            /\ ai[m] = NoCall /\ ret[m] = NoRet
            /\ attempts[m] = <<>>)
  /\ [][\A m \in Msgs :
          (IsBlank(m)' /\ ~IsBlank(m)) => UNCHANGED <<users, created>>]_vars

\* A blank message was handled by the Telegram and by the Slack handler.
C16_Witness ==
  \E m1, m2 \in Msgs :
    /\ IsBlank(m1) /\ IsBlank(m2)
    /\ msg[m1].platform = "telegram" /\ msg[m2].platform = "slack"
    /\ hpc[m1] = "done" /\ hpc[m2] = "done"

\* The send attempts of the Telegram handler for message m.
TgAttempts(m) == IF IsTg(m) THEN attempts[m] ELSE <<>>

\* C17: each chunk gets at most one formatted and at most one plain attempt;
\* a plain attempt directly follows the formatted attempt of the same chunk
\* that was rejected as a bad request; no attempt goes back to an earlier
\* chunk; a formatted attempt failing otherwise is the last attempt.
C17_RetryOncePlainOnBadRequest ==
  \A m \in Msgs :
    LET a == TgAttempts(m) IN
    /\ \A i \in 1..Len(a) :
         /\ a[i].mode = "plain" =>
              /\ i > 1
              /\ a[i-1].mode = "md" /\ a[i-1].res = "bad_request"
              /\ a[i-1].chunk = a[i].chunk
         /\ (a[i].mode = "md" /\ a[i].res = "error") => i = Len(a)
    /\ \A i, j \in 1..Len(a) :
         /\ i < j => a[i].chunk <= a[j].chunk
         /\ (i # j /\ a[i].chunk = a[j].chunk) => a[i].mode # a[j].mode

\* A chunk went through on its plain retry, and the formatted send of the
\* next chunk failed with another error and ended the handler.
C17_Witness ==
  \E m \in Msgs :
    /\ IsTg(m) /\ Len(attempts[m]) = 3 /\ hpc[m] = "raised_send"
    /\ attempts[m][1] = [chunk |-> 1, mode |-> "md", res |-> "bad_request"]
    /\ attempts[m][2] = [chunk |-> 1, mode |-> "plain", res |-> "ok"]
    /\ attempts[m][3] = [chunk |-> 2, mode |-> "md", res |-> "error"]

\* The chunks of m's reply the platform accepted.
Delivered(m) == {TgAttempts(m)[i].chunk : i \in
                   {j \in 1..Len(TgAttempts(m)) : TgAttempts(m)[j].res = "ok"}}

\* C18: the delivered chunks are a prefix of the segmenter's output; a
\* chunk is attempted only after the chunk before it was accepted; after a
\* chunk's sends failed nothing more of that reply is sent.
C18_OrderedPrefix ==
  \A m \in Msgs :
    LET a == TgAttempts(m) IN
    /\ \E k \in 0..Len(Chunks[ret[m].value]) : Delivered(m) = 1..k
    /\ \A j \in 1..Len(a) :
         /\ a[j].chunk \in 1..Len(Chunks[ret[m].value])
         /\ a[j].chunk > 1 =>
              \E i \in 1..(j-1) : a[i].chunk = a[j].chunk - 1 /\ a[i].res = "ok"
         /\ a[j].res = "error" => j = Len(a)
         /\ a[j].res = "ok" => \A i \in 1..(j-1) : a[i].chunk <= a[j].chunk

\* One two-chunk reply was delivered whole, its first chunk on the plain
\* retry; of another the first chunk failed and the second was never sent.
C18_Witness ==
  \E m1, m2 \in Msgs :
    /\ IsTg(m1) /\ IsTg(m2)
    /\ ret[m1].value = LONG /\ ret[m2].value = LONG
    /\ hpc[m1] = "done" /\ Delivered(m1) = {1, 2}
    /\ attempts[m1][2].mode = "plain"
    /\ hpc[m2] = "raised_send" /\ Delivered(m2) = {}
    /\ attempts[m2][Len(attempts[m2])].mode = "plain"

\* The text handed to the platform by the i-th attempt of m.
SentText(m, i) ==
  IF attempts[m][i].mode = "say" THEN ReplyText(ret[m].value)
  ELSE Chunks[ret[m].value][attempts[m][i].chunk]

\* C19: in both adapters every text handed to the platform's send operation
\* is no longer than the maximum chunk length.
C19_EverySendWithinLimit ==
  \A m \in Msgs :
    \A i \in 1..Len(attempts[m]) : Len(SentText(m, i)) <= DEFAULT_MAX_LEN

\* ------------------------------------------------ segmenter properties
SplitDone == spc = "done"

NoNewline(s) == \A i \in 1..Len(s) : s[i] # NL

RECURSIVE SumLen(_)
SumLen(cs) == IF cs = <<>> THEN 0 ELSE Len(Head(cs)) + SumLen(Tail(cs))

\* t is the chunks cs in order, with a (possibly empty) run of newlines
\* dropped right after each chunk and nothing else changed.
RECURSIVE Reassembles(_, _)
Reassembles(t, cs) ==
  IF cs = <<>> THEN t = <<>>
  ELSE LET c == Head(cs)
           rest == SubSeq(t, Len(c) + 1, Len(t))
       IN /\ Len(c) <= Len(t)
          /\ SubSeq(t, 1, Len(c)) = c
          /\ \E k \in 0..Len(rest) :
               /\ \A j \in 1..k : rest[j] = NL
               /\ Reassembles(SubSeq(rest, k + 1, Len(rest)), Tail(cs))

CeilDiv(a, b) == (a + b - 1) \div b

\* C6: for every text and every max_len >= 1, _split_message terminates and
\* returns a non-empty list of chunks, none longer than max_len.
C6_SplitTerminatesBounded ==
  /\ <>SplitDone
  /\ [](SplitDone => /\ Len(parts) >= 1
                     /\ \A i \in 1..Len(parts) : Len(parts[i]) <= max_len)

\* A call that went through the loop and cut the text into several chunks.
C6_Witness == SplitDone /\ Len(text) > max_len /\ Len(parts) >= 3

\* C7: the chunks in order are the text with only newlines removed, each
\* removed run standing right after a split point; a text within the limit
\* comes back as the single chunk equal to it.
C7_SplitReassembles ==
  SplitDone =>
    /\ Reassembles(text, parts)
    /\ (Len(text) <= max_len => parts = <<text>>)

\* A split call that did strip newlines.
C7_Witness ==
  SplitDone /\ Len(text) > max_len /\ Len(parts) >= 2 /\ SumLen(parts) < Len(text)

\* C8: a text without any newline, longer than max_len, is cut into exactly
\* ceil(len / max_len) chunks, none longer than max_len, and the call ends.
C8_HardCutCount ==
  /\ [](NoNewline(text) /\ Len(text) > max_len => <>SplitDone)
  /\ [](SplitDone /\ NoNewline(text) /\ Len(text) > max_len =>
          /\ Len(parts) = CeilDiv(Len(text), max_len)
          /\ \A i \in 1..Len(parts) : Len(parts[i]) <= max_len)

\* A newline-free text cut with a last chunk shorter than the others.
C8_Witness ==
  /\ SplitDone /\ NoNewline(text) /\ Len(text) > max_len
  /\ Len(parts) = 3 /\ Len(parts[3]) < max_len

\* C20: for a non-empty text no chunk is the empty string and no chunk after
\* the first begins with a newline.
C20_NoEmptyChunk ==
  (SplitDone /\ text # <<>>) =>
    \A i \in 1..Len(parts) :
      /\ parts[i] # <<>>
      /\ i > 1 => parts[i][1] # NL

====
